---- MODULE Spec2Model ----
(***************************************************************************)
(* cpy-cli: one invocation of cli.js, from the parsed command line to the  *)
(* process exit.  cli.js is modelled statement by statement; the copy      *)
(* engine it calls (the `cpy` package) and the glob capability (`globby`)  *)
(* are not part of the repository's files and are modelled from the        *)
(* specification (sections 4 to 7).                                        *)
(*                                                                         *)
(* A string is a sequence of tokens ("src", "/", "a", ".", "txt"); a path  *)
(* is a sequence of segments, a segment a non-empty sequence of tokens.    *)
(***************************************************************************)
EXTENDS Integers, Sequences, FiniteSets, TLC

VARIABLES
    platform,     \* process.platform
    input,        \* cli.input: the positional arguments (popped at cli.js:97)
    flags,        \* cli.flags (rename and flat are rewritten by cli.js)
    destination,  \* let destination (cli.js:97, rewritten at cli.js:116)
    fileToFile,   \* const isFileToFileCopy (cli.js:102)
    pc,           \* position of the main script
    fs,           \* the file system: absolute path -> node
    copyFiles,    \* const copyFiles (cli.js:95)
    stdout,       \* lines written by console.log
    stderr,       \* messages written by console.error
    exitCode,     \* -1 while running, then the process exit code
    thrown,       \* the first error of the engine (the rejection of `await cpy`)
    uncaught,     \* whether an error left the script (cli.js:150)
    call,         \* the arguments of the cpy(...) call at cli.js:119
    entries,      \* the engine's resolved copy set, in match order
    status,       \* the engine's per-task state
    files,        \* the engine's result (what `await cpy` returns)
    input0,       \* history: cli.input as parsed
    flags0,       \* history: cli.flags as parsed
    fs0,          \* history: the file system at process start
    cpus,         \* os.cpus().length (cli.js:81)
    concurrencyArgument,  \* the --concurrency argument: <<n>>, or <<>> when absent
    run           \* which invocation of the command this is (1 for the first)

vars == <<platform, input, flags, destination, fileToFile, pc, fs, copyFiles,
          stdout, stderr, exitCode, thrown, uncaught, call, entries, status, files,
          input0, flags0, fs0, cpus, concurrencyArgument, run>>

(***************************************************************************)
(* Bounds of the model.                                                    *)
(***************************************************************************)
MaxConcurrency == 2
MaxMtime == 3
MaxOptions == 2
HostCpus == 1
MaxCpus == 3
MaxRuns == 2

(***************************************************************************)
(* Sequence helpers.                                                       *)
(***************************************************************************)
Last(s) == s[Len(s)]

Front(s) == SubSeq(s, 1, Len(s) - 1)

Range(s) == {s[i] : i \in DOMAIN s}

IsPrefix(p, s) == Len(p) <= Len(s) /\ SubSeq(s, 1, Len(p)) = p

RECURSIVE Flatten(_)
Flatten(ss) == IF ss = <<>> THEN <<>> ELSE Head(ss) \o Flatten(Tail(ss))

\* The value `undefined` where a string is expected: no string of the model holds this token.
Undefined == <<"undefined:">>

(***************************************************************************)
(* node:path, on strings of tokens.                                        *)
(***************************************************************************)
Sep == "/"
Backslash == "\\"

\* The separators node:path honours on the running platform.
Separators == IF platform = "win32" THEN {Sep, Backslash} ELSE {Sep}

\* The segments of a string: split at separators, empty segments dropped.
RECURSIVE SplitAt(_, _, _)
SplitAt(s, seps, cur) ==
    IF s = <<>> THEN (IF cur = <<>> THEN <<>> ELSE <<cur>>)
    ELSE IF Head(s) \in seps
         THEN (IF cur = <<>> THEN <<>> ELSE <<cur>>) \o SplitAt(Tail(s), seps, <<>>)
         ELSE SplitAt(Tail(s), seps, Append(cur, Head(s)))

Segments(s) == SplitAt(s, Separators, <<>>)

\* Resolution of "." and ".." segments.
RECURSIVE Normalize(_, _)
Normalize(done, rest) ==
    IF rest = <<>> THEN done
    ELSE IF Head(rest) = <<".">> THEN Normalize(done, Tail(rest))
    ELSE IF Head(rest) = <<"..">>
         THEN Normalize(IF done = <<>> THEN <<>> ELSE Front(done), Tail(rest))
         ELSE Normalize(Append(done, Head(rest)), Tail(rest))

\* path.resolve(base, s) for a relative s: an absolute path.
PathResolve(base, s) == Normalize(base, Segments(s))

\* path.basename(s): the last segment, trailing separators ignored.
PathBasename(s) == IF Segments(s) = <<>> THEN <<>> ELSE Last(Segments(s))

\* The string that names the segments segs.
RECURSIVE JoinSegments(_)
JoinSegments(segs) ==
    IF segs = <<>> THEN <<>>
    ELSE IF Len(segs) = 1 THEN Head(segs)
    ELSE Head(segs) \o <<Sep>> \o JoinSegments(Tail(segs))

\* path.dirname(s): everything before the last segment, "." when there is none.
PathDirname(s) ==
    IF Len(Segments(s)) <= 1 THEN <<".">> ELSE JoinSegments(Front(Segments(s)))

\* path.relative(from, to) on absolute paths: up from `from`, down to `to`.
RECURSIVE CommonLen(_, _)
CommonLen(a, b) ==
    IF a = <<>> \/ b = <<>> \/ Head(a) # Head(b) THEN 0
    ELSE 1 + CommonLen(Tail(a), Tail(b))

PathRelative(from, to) ==
    LET n == CommonLen(from, to)
    IN  [i \in 1..(Len(from) - n) |-> <<"..">>] \o SubSeq(to, n + 1, Len(to))

\* path.extname(name): from the last "." of the name, unless the name starts with it.
RECURSIVE LastDot(_, _)
LastDot(name, i) ==
    IF i <= 1 THEN 0 ELSE IF name[i] = "." THEN i ELSE LastDot(name, i - 1)

\* source.nameWithoutExtension and source.extension of the engine's source object
NameWithoutExtension(name) ==
    IF LastDot(name, Len(name)) = 0 THEN name
    ELSE SubSeq(name, 1, LastDot(name, Len(name)) - 1)

Extension(name) ==
    IF LastDot(name, Len(name)) = 0 THEN <<>>
    ELSE SubSeq(name, LastDot(name, Len(name)) + 1, Len(name))

(***************************************************************************)
(* The file system.                                                        *)
(***************************************************************************)
DirNode == [kind |-> "dir", content |-> <<>>, mtime |-> 0]

FileNode(c, m) == [kind |-> "file", content |-> c, mtime |-> m]

Exists(f, p) == p \in DOMAIN f

IsFile(f, p) == Exists(f, p) /\ f[p].kind = "file"

IsDir(f, p) == Exists(f, p) /\ f[p].kind = "dir"

\* function isDirectory(filePath): statSync(...).isDirectory(), false when it throws
isDirectory(filePath) == IsDir(fs, filePath)

SizeOf(node) == Len(node.content)

\* The proper ancestors of path p, the root included.
Ancestors(p) == {SubSeq(p, 1, n) : n \in 0..(Len(p) - 1)}

\* `p` and every ancestor of it below the root exists as a directory afterwards.
MkdirP(f, p) ==
    [q \in DOMAIN f \cup (Ancestors(p) \cup {p}) |->
        IF q \in DOMAIN f THEN f[q] ELSE DirNode]

\* Some component of p that exists is not a directory: nothing can be created below.
Blocked(f, p) == \E q \in Ancestors(p) : IsFile(f, q)

WriteFile(f, p, node) ==
    LET g == MkdirP(f, Front(p))
    IN  [q \in DOMAIN g \cup {p} |-> IF q = p THEN node ELSE g[q]]

(***************************************************************************)
(* String.prototype helpers.                                               *)
(***************************************************************************)
\* s.startsWith(tok)
StartsWith(s, tok) == s # <<>> /\ Head(s) = tok

\* s.includes(tok)
Includes(s, tok) == \E i \in DOMAIN s : s[i] = tok

\* s.replaceAll(tok, repl)
ReplaceAll(s, tok, repl) ==
    Flatten([i \in DOMAIN s |-> IF s[i] = tok THEN repl ELSE <<s[i]>>])

(***************************************************************************)
(* The glob capability (globby), from the specification: patterns are      *)
(* matched segment by segment; "*" stands for any tokens of one segment,   *)
(* "**" for any number of segments, "@(a|b)" for one of its alternatives,  *)
(* and a backslash escapes the token after it.                             *)
(***************************************************************************)
GlobTokens == {"*", "**", "@(a|b)"}

Alternatives(tok) == IF tok = "@(a|b)" THEN {"a", "b"} ELSE {tok}

\* isDynamicPattern(pattern): glob syntax, or an escape character, occurs in it
isDynamicPattern(pattern) ==
    \E i \in DOMAIN pattern : pattern[i] \in GlobTokens \cup {Backslash}

RECURSIVE MatchTokens(_, _)
MatchTokens(p, s) ==
    IF p = <<>> THEN s = <<>>
    ELSE IF Head(p) = Backslash
         THEN /\ Len(p) >= 2
              /\ s # <<>>
              /\ p[2] = Head(s)
              /\ MatchTokens(SubSeq(p, 3, Len(p)), Tail(s))
    ELSE IF Head(p) = "*"
         THEN \/ MatchTokens(Tail(p), s)
              \/ (s # <<>> /\ MatchTokens(p, Tail(s)))
    ELSE /\ s # <<>>
         /\ Head(s) \in Alternatives(Head(p))
         /\ MatchTokens(Tail(p), Tail(s))

\* One path segment against one pattern segment; a leading "." is matched
\* only by a literal "." unless dot-file inclusion is on.
MatchSegment(p, s, dot) ==
    /\ (Head(s) = "." /\ ~dot) => Head(p) = "."
    /\ MatchTokens(p, s)

RECURSIVE MatchPath(_, _, _)
MatchPath(ps, ss, dot) ==
    IF ps = <<>> THEN ss = <<>>
    ELSE IF Head(ps) = <<"**">>
         THEN \/ MatchPath(Tail(ps), ss, dot)
              \/ (ss # <<>> /\ MatchPath(ps, Tail(ss), dot))
    ELSE /\ ss # <<>>
         /\ MatchSegment(Head(ps), Head(ss), dot)
         /\ MatchPath(Tail(ps), Tail(ss), dot)

(***************************************************************************)
(* cli.js, lines 86 to 117: the rename template and the single-file        *)
(* shortcut.                                                               *)
(***************************************************************************)
\* const stringTemplate = '{{basename}}' (cli.js:88)
stringTemplate == "{{basename}}"

\* The values of cli.flags.rename: undefined, the string given with --rename,
\* the closure of cli.js:90 (over `rename`) or the closure of cli.js:111
\* (over `destinationFilename`).
NoRename == [kind |-> "undefined", value |-> <<>>]

RenameString(s) == [kind |-> "string", value |-> s]

TemplateClosure(rename) == [kind |-> "template", value |-> rename]

FilenameClosure(destinationFilename) == [kind |-> "filename", value |-> destinationFilename]

\* A template closure that replaces the first placeholder only (replace in
\* place of replaceAll).
renameTemplateFirstOnly(rename, name) ==
    LET hits == {i \in DOMAIN rename : rename[i] = stringTemplate}
        k == CHOOSE i \in hits : \A j \in hits : i <= j
    IN  (IF hits = {} THEN rename
         ELSE SubSeq(rename, 1, k - 1) \o NameWithoutExtension(name)
                 \o SubSeq(rename, k + 1, Len(rename)))
        \o (IF Extension(name) # <<>> THEN <<".">> \o Extension(name) ELSE <<>>)

\* The body of the closure of cli.js:90-92, applied to a source named `name`:
\* the value it assigns to destination.name.
renameTemplate(rename, name) ==
    ReplaceAll(rename, stringTemplate, NameWithoutExtension(name))
        \o (IF Extension(name) # <<>> THEN <<".">> \o Extension(name) ELSE <<>>)

\* cli.js:87-93: cli.flags after the template check
flagsAfterTemplate(f) ==
    IF f.rename.kind = "string" /\ Includes(f.rename.value, stringTemplate)
    THEN [f EXCEPT !.rename = TemplateClosure(f.rename.value)]
    ELSE f

\* pattern => !pattern.startsWith('!') (cli.js:98)
IsPositive(pattern) == ~StartsWith(pattern, "!")

\* const sourcePatterns = cli.input.filter(...) (cli.js:98)
sourcePatterns(inp) == SelectSeq(inp, IsPositive)

\* A read of the last argument that leaves it in the list (at(-1) in place of
\* pop).
afterPopKeepingLast(inp) == inp

\* cli.input.pop() (cli.js:97): the value popped and what is left
popped(inp) == IF inp = <<>> THEN Undefined ELSE Last(inp)

afterPop(inp) == IF inp = <<>> THEN <<>> ELSE Front(inp)

\* const hasDestination (cli.js:99)
hasDestination(dest) == dest # Undefined

\* const hasTrailingSeparator (cli.js:100): /[\\/]$/.test(destination)
hasTrailingSeparator(dest) ==
    hasDestination(dest) /\ dest # <<>> /\ Last(dest) \in {Sep, Backslash}

\* const sourcePatternForDynamicCheck (cli.js:101)
sourcePatternForDynamicCheck(inp) ==
    IF Len(sourcePatterns(inp)) = 1 /\ platform = "win32"
    THEN ReplaceAll(sourcePatterns(inp)[1], Backslash, <<Sep>>)
    ELSE IF sourcePatterns(inp) = <<>> THEN Undefined ELSE sourcePatterns(inp)[1]

\* The classification without its last condition: an existing destination
\* directory is not looked at.
isFileToFileCopyUncheckedDestination(inp, dest) ==
    /\ Len(SelectSeq(inp, IsPositive)) = 1
    /\ hasDestination(dest)
    /\ ~isDynamicPattern(sourcePatternForDynamicCheck(inp))
    /\ ~isDirectory(PathResolve(flags.cwd, SelectSeq(inp, IsPositive)[1]))
    /\ ~hasTrailingSeparator(dest)

\* const isFileToFileCopy (cli.js:102-107), `inp` being cli.input after the pop
isFileToFileCopy(inp, dest) ==
    /\ Len(sourcePatterns(inp)) = 1
    /\ hasDestination(dest)
    /\ ~isDynamicPattern(sourcePatternForDynamicCheck(inp))
    /\ ~isDirectory(PathResolve(flags.cwd, sourcePatterns(inp)[1]))
    /\ ~hasTrailingSeparator(dest)
    /\ ~isDirectory(PathResolve(flags.cwd, dest))

\* A shortcut that leaves the destination as given.
destinationAsGiven(dest) == dest

\* A shortcut that keeps a rename rule the user supplied.
flagsAfterShortcutKeepingRename(f, dest) ==
    IF f.rename = NoRename
    THEN [f EXCEPT !.rename = FilenameClosure(PathBasename(dest)), !.flat = TRUE]
    ELSE [f EXCEPT !.flat = TRUE]

\* cli.js:109-117: cli.flags and destination after the shortcut's rewrite
flagsAfterShortcut(f, dest) ==
    [f EXCEPT !.rename = FilenameClosure(PathBasename(dest)), !.flat = TRUE]

destinationAfterShortcut(dest) == PathDirname(dest)

\* An options object that drops --no-overwrite, and one that drops --dry-run.
cpyOptionsAlwaysOverwrite(f) ==
    [cwd |-> f.cwd, base |-> f.base, rename |-> f.rename, overwrite |-> TRUE,
     dot |-> f.dot, flat |-> f.flat, concurrency |-> f.concurrency,
     dryRun |-> f.dryRun]

cpyOptionsNeverDryRun(f) ==
    [cwd |-> f.cwd, base |-> f.base, rename |-> f.rename, overwrite |-> f.overwrite,
     dot |-> f.dot, flat |-> f.flat, concurrency |-> f.concurrency,
     dryRun |-> FALSE]

\* An options object whose pool is one larger than the limit given.
cpyOptionsWiderPool(f) ==
    [cwd |-> f.cwd, base |-> f.base, rename |-> f.rename, overwrite |-> f.overwrite,
     dot |-> f.dot, flat |-> f.flat, concurrency |-> f.concurrency + 1,
     dryRun |-> f.dryRun]

\* An options object in which --update lifts --no-overwrite.
cpyOptionsUpdateFirst(f) ==
    [cwd |-> f.cwd, base |-> f.base, rename |-> f.rename,
     overwrite |-> f.overwrite \/ f.update,
     dot |-> f.dot, flat |-> f.flat, concurrency |-> f.concurrency,
     dryRun |-> f.dryRun]

\* The options object of the cpy call (cli.js:119-133)
cpyOptions(f) ==
    [cwd |-> f.cwd, base |-> f.base, rename |-> f.rename, overwrite |-> f.overwrite,
     dot |-> f.dot, flat |-> f.flat, concurrency |-> f.concurrency,
     dryRun |-> f.dryRun]

\* A call that passes the source patterns only, without the exclusions.
cpySourcePositiveOnly(inp) == SelectSeq(inp, IsPositive)

\* A call that passes the source patterns first and the exclusions after them.
cpySourceExclusionsLast(inp) ==
    SelectSeq(inp, IsPositive) \o SelectSeq(inp, LAMBDA pattern : ~IsPositive(pattern))

\* The first argument of the cpy call (cli.js:119)
cpySource(inp) == inp

\* A progress callback that records every copy, dry run or not.
onProgressAlways(f, list, sourcePath, destinationPath) ==
    Append(list, [sourcePath |-> sourcePath, destinationPath |-> destinationPath])

\* onProgress({sourcePath, destinationPath}) (cli.js:128-132)
onProgress(f, list, sourcePath, destinationPath) ==
    IF f.dryRun
    THEN Append(list, [sourcePath |-> sourcePath, destinationPath |-> destinationPath])
    ELSE list

(***************************************************************************)
(* The universe of the model: the process runs in /w.                      *)
(***************************************************************************)
ProcessCwd == << <<"w">> >>

SrcDir == ProcessCwd \o << <<"src">> >>

ATxt == <<"a", ".", "txt">>

BTxt == <<"b", ".", "txt">>

OutTxt == <<"out", ".", "txt">>

DotEnv == <<".", "env">>

\* The files that may exist at process start, in directory-traversal order.
UniverseFiles ==
    << ProcessCwd \o <<DotEnv>>,
       ProcessCwd \o <<ATxt>>,
       ProcessCwd \o <<BTxt>>,
       ProcessCwd \o << <<"dest">> >>,
       ProcessCwd \o << <<"dest">>, ATxt >>,
       ProcessCwd \o <<OutTxt>>,
       SrcDir \o <<ATxt>>,
       SrcDir \o <<BTxt>>,
       SrcDir \o << <<"dest">> >>,
       SrcDir \o << <<"dest">>, ATxt >>,
       SrcDir \o <<OutTxt>> >>

(***************************************************************************)
(* The copy engine (the cpy package), from the specification.              *)
(***************************************************************************)
NoError == [name |-> "none", kind |-> "none", path |-> <<>>]

CpyError(kind, path) == [name |-> "CpyError", kind |-> kind, path |-> path]

\* What the error stream shows for an engine error: its message.
MessageOf(error) ==
    CASE error.kind = "MissingArguments" -> <<"source and destination required">>
      [] error.kind = "SourceNotFound" -> <<"Cannot copy: the file doesn't exist", error.path>>
      [] error.kind = "AlreadyExists" -> <<"Cannot copy: already exists", error.path>>
      [] OTHER -> <<"Cannot copy", error.path>>

\* A pattern as the glob capability reads it: on win32 a backslash separates.
GlobForm(p) == IF platform = "win32" THEN ReplaceAll(p, Backslash, <<Sep>>) ELSE p

\* 4.1: file f of `tree` is selected by pattern p (without its exclusion marker)
\* under cwd.
\* A named directory selects the files below it.
Selects(tree, p, cwd, dot, f) ==
    IF isDynamicPattern(GlobForm(p))
    THEN /\ IsPrefix(cwd, f)
         /\ MatchPath(Segments(GlobForm(p)), SubSeq(f, Len(cwd) + 1, Len(f)), dot)
    ELSE \/ f = PathResolve(cwd, p)
         \/ (IsDir(tree, PathResolve(cwd, p)) /\ IsPrefix(PathResolve(cwd, p), f))

\* The leading segments of a pattern that hold no glob syntax.
RECURSIVE StaticPrefix(_)
StaticPrefix(segs) ==
    IF segs = <<>> \/ isDynamicPattern(Head(segs)) THEN <<>>
    ELSE <<Head(segs)>> \o StaticPrefix(Tail(segs))

\* 4.2: the fixed, non-glob prefix of the pattern that matched.
FixedPrefix(p, cwd) ==
    IF isDynamicPattern(GlobForm(p))
    THEN Normalize(cwd, StaticPrefix(Segments(GlobForm(p))))
    ELSE Front(PathResolve(cwd, p))

\* 4.3: the destination filename under the rename rule.
Renamed(rule, name) ==
    CASE rule.kind = "undefined" -> name
      [] rule.kind = "string" -> rule.value
      [] rule.kind = "template" -> renameTemplate(rule.value, name)
      [] rule.kind = "filename" -> rule.value

\* 4.2: the destination path of source file f matched by pattern p.
DestinationPath(o, destDir, p, f) ==
    LET rel == IF o.flat \/ IsPrefix(destDir, f) THEN <<Last(f)>>
               ELSE IF o.base = <<"pattern">> THEN PathRelative(FixedPrefix(p, o.cwd), f)
               ELSE PathRelative(o.cwd, f)
    IN  destDir \o Front(rel) \o <<Renamed(o.rename, Last(rel))>>

\* The patterns of the call that carry the exclusion marker, without it.
Ignore(source) == {Tail(source[i]) : i \in {j \in DOMAIN source : ~IsPositive(source[j])}}

Ignored(tree, c, f) ==
    \E n \in Ignore(c.source) : Selects(tree, n, c.options.cwd, c.options.dot, f)

IsSelected(tree, c, p, f) ==
    /\ IsFile(tree, f)
    /\ Selects(tree, p, c.options.cwd, c.options.dot, f)
    /\ ~Ignored(tree, c, f)

\* The copy tasks one positive pattern contributes, in traversal order.
TasksOf(tree, c, p) ==
    LET destDir == PathResolve(c.options.cwd, c.destination)
        Hit(f) == IsSelected(tree, c, p, f)
        hits == SelectSeq(UniverseFiles, Hit)
    IN  [i \in DOMAIN hits |->
            [sourcePath |-> hits[i],
             destinationPath |-> DestinationPath(c.options, destDir, p, hits[i])]]

\* Order-stable removal of repeated tasks.
RECURSIVE Dedupe(_, _)
Dedupe(s, seen) ==
    IF s = <<>> THEN <<>>
    ELSE IF Head(s) \in seen THEN Dedupe(Tail(s), seen)
    ELSE <<Head(s)>> \o Dedupe(Tail(s), seen \cup {Head(s)})

\* 4.1: the resolved copy set of a call on `tree`, in match order.
Expand(tree, c) ==
    Dedupe(Flatten([i \in DOMAIN c.source |->
                       IF IsPositive(c.source[i]) THEN TasksOf(tree, c, c.source[i])
                       ELSE <<>>]),
           {})

\* 4.4: shouldCopy(sourceMeta, destinationMeta)
ShouldCopy(f, src, dst) ==
    \/ ~Exists(f, dst)
    \/ f[src].mtime > f[dst].mtime
    \/ (f[src].mtime = f[dst].mtime /\ SizeOf(f[src]) # SizeOf(f[dst]))

\* An option the call does not pass takes the engine's default.
UpdateOption(o) == IF "update" \in DOMAIN o THEN o.update ELSE FALSE

\* 4.4: the update policy is consulted only with update on and overwrite on.
UpdateGate(o) == UpdateOption(o) /\ o.overwrite

\* 7: the error, if any, that ends a call before any task is scheduled.
\* 4.1: in a single-file shortcut a direct existence check replaces the
\* no-match outcome.
CallError(tree, c, shortcut) ==
    IF sourcePatterns(c.source) = <<>> \/ c.destination = Undefined
    THEN CpyError("MissingArguments", <<>>)
    ELSE IF shortcut /\ ~Exists(tree, PathResolve(c.options.cwd, sourcePatterns(c.source)[1]))
    THEN CpyError("SourceNotFound", sourcePatterns(c.source)[1])
    ELSE NoError

\* 4.6: the outcome of one task on file system f: "skipped", "copied",
\* "reported" (dry run) or the error that fails it.
TaskOutcome(o, f, task) ==
    IF UpdateGate(o) /\ ~ShouldCopy(f, task.sourcePath, task.destinationPath)
    THEN "skipped"
    ELSE IF o.dryRun THEN "reported"
    ELSE IF Exists(f, task.destinationPath) /\ ~o.overwrite THEN "AlreadyExists"
    ELSE IF IsDir(f, task.destinationPath) \/ Blocked(f, task.destinationPath)
    THEN "CopyIO"
    ELSE "copied"

\* The byte copy: content and timestamp of the source at the destination,
\* parent directories created as needed.
CopyFile(f, task) ==
    WriteFile(f, task.destinationPath,
              FileNode(f[task.sourcePath].content, f[task.sourcePath].mtime))

(***************************************************************************)
(* The inputs of the model.                                                *)
(***************************************************************************)
SourceArguments ==
    { <<"a", ".", "txt">>,                   \* a file of /w, a file of /w/src
      <<"src", "/", "a", ".", "txt">>,       \* a file of /w/src
      <<"src", "/", "*", ".", "txt">>,       \* a glob
      <<"@(a|b)", ".", "txt">>,              \* an extglob
      <<"src">>,                             \* a directory of /w
      <<"zz", ".", "txt">>,                  \* no such file
      <<"nn", "/", "*", ".", "txt">>,        \* a glob under no such folder
      <<"src", "\\", "a", ".", "txt">> }     \* win32 separators

DestinationArguments == { <<"dest">>, <<"dest", "/">>, <<"out", ".", "txt">> }

Inputs ==
    {<<>>} \cup {<<s>> : s \in SourceArguments}
    \cup {<<s, d>> : s \in SourceArguments, d \in DestinationArguments}
    \cup { << <<".", "env">>, <<"dest">> >>,
           << <<"a", ".", "txt">>, <<"dest", "\\">> >>,
           << <<"a", ".", "txt">>, <<"dest", "/", "out", ".", "txt">> >>,
           << <<"!", "b", ".", "txt">>, <<"dest">> >>,
           << <<"a", ".", "txt">>, <<"!", "x">> >>,
           << <<"@(a|b)", ".", "txt">>, <<"!", "b", ".", "txt">>, <<"dest">> >>,
           << <<"!", "b", ".", "txt">>, <<"@(a|b)", ".", "txt">>, <<"dest">> >>,
           << <<"a", ".", "txt">>, <<"!", "a", ".", "txt">>, <<"out", ".", "txt">> >>,
           << <<"a", ".", "txt">>, <<"!", "b", ".", "txt">>, <<"out", ".", "txt">> >>,
           << <<"a", ".", "txt">>, <<"src", "/", "a", ".", "txt">>, <<"dest">> >>,
           << <<"src", "/", "a", ".", "txt">>, <<"a", ".", "txt">>, <<"dest">> >>,
           << <<"src", "/", "*", ".", "txt">>, <<"a", ".", "txt">>, <<"dest">> >>,
           << <<"a", ".", "txt">>, <<"src", "/", "*", ".", "txt">>, <<"dest">> >> }

\* The platforms an argument list is run on: win32 differs from the others
\* only in reading a backslash as a separator.
Platforms(inp) ==
    IF \E i \in DOMAIN inp : Includes(inp[i], Backslash) THEN {"linux", "win32"}
    ELSE {"linux"}

RenameArguments ==
    { NoRename,
      RenameString(<<"hi", ".", "js">>),
      RenameString(<<"hi-", "{{basename}}">>),
      RenameString(<<"{{basename}}", "-copy-", "{{basename}}">>) }

\* A default without the guard for a host that reports no processing unit.
defaultConcurrencyUnguarded(n) == n * 2

\* default: (os.cpus().length > 0 ? os.cpus().length : 1) * 2 (cli.js:81)
defaultConcurrency(n) == (IF n > 0 THEN n ELSE 1) * 2

\* cli.flags.concurrency as meow returns it (cli.js:79-82): the argument, or
\* the default when it is absent.
concurrencyFlag(argument, n) ==
    IF argument = <<>> THEN defaultConcurrency(n) ELSE argument[1]

\* cli.flags when no option is given (cli.js:52-83), on a host of HostCpus
\* processing units.
DefaultFlags ==
    [overwrite |-> TRUE, cwd |-> ProcessCwd, base |-> Undefined, rename |-> NoRename,
     dot |-> FALSE, flat |-> FALSE, dryRun |-> FALSE,
     concurrency |-> defaultConcurrency(HostCpus),
     update |-> FALSE]

OptionsGiven(f) == {k \in DOMAIN DefaultFlags : f[k] # DefaultFlags[k]}

\* The command lines of the model give at most MaxOptions options.
Flags ==
    {f \in [overwrite : BOOLEAN, cwd : {ProcessCwd, SrcDir},
            base : {Undefined, <<"pattern">>}, rename : RenameArguments,
            dot : {FALSE}, flat : BOOLEAN, dryRun : BOOLEAN,
            concurrency : 1..MaxConcurrency, update : BOOLEAN] :
        Cardinality(OptionsGiven(f)) <= MaxOptions}

\* The source tree every run starts from.
SourceTree ==
    (<<>> :> DirNode) @@ (ProcessCwd :> DirNode) @@ (SrcDir :> DirNode)
    @@ (ProcessCwd \o <<DotEnv>> :> FileNode(<<5>>, 2))
    @@ (ProcessCwd \o <<ATxt>> :> FileNode(<<1>>, 2))
    @@ (ProcessCwd \o <<BTxt>> :> FileNode(<<2>>, 2))
    @@ (SrcDir \o <<ATxt>> :> FileNode(<<3>>, 3))
    @@ (SrcDir \o <<BTxt>> :> FileNode(<<4, 4>>, 1))

OldContents == {<<9>>, <<9, 9>>}

\* The file systems a run may start from: the source tree, and under cwd
\* nothing, a directory dest (empty or holding a.txt), a file dest, or out.txt
\* as a file or as a directory.
FileSystems(cwd) ==
    {SourceTree}
    \cup {(cwd \o << <<"dest">> >> :> DirNode) @@ SourceTree}
    \cup {(cwd \o << <<"dest">>, ATxt >> :> FileNode(c, m))
             @@ (cwd \o << <<"dest">> >> :> DirNode) @@ SourceTree :
          c \in OldContents, m \in 1..MaxMtime}
    \cup {(cwd \o << <<"dest">> >> :> FileNode(<<9>>, 1)) @@ SourceTree}
    \cup {(cwd \o <<OutTxt>> :> FileNode(<<9>>, 1)) @@ SourceTree}
    \cup {(cwd \o <<OutTxt>> :> DirNode) @@ SourceTree}

\* The state the script starts in, whatever the command line and the host.
Started ==
    /\ destination = Undefined
    /\ fileToFile = FALSE
    /\ pc = "template"
    /\ copyFiles = <<>>
    /\ stdout = <<>>
    /\ stderr = <<>>
    /\ exitCode = -1
    /\ thrown = NoError
    /\ uncaught = FALSE
    /\ call = [source |-> <<>>, destination |-> Undefined, options |-> cpyOptions(flags)]
    /\ entries = <<>>
    /\ status = <<>>
    /\ files = <<>>
    /\ input0 = input
    /\ flags0 = flags
    /\ fs0 = fs
    /\ run = 1

Init ==
    /\ input \in Inputs
    /\ platform \in Platforms(input)
    /\ flags \in Flags
    /\ fs \in FileSystems(flags.cwd)
    /\ cpus = HostCpus
    /\ concurrencyArgument =
          IF flags.concurrency = defaultConcurrency(cpus) THEN <<>>
          ELSE <<flags.concurrency>>
    /\ Started

\* Hosts of 0 to MaxCpus processing units, the command given with or without
\* --concurrency and with or without --dry-run.
HostInit ==
    /\ input \in Inputs
    /\ platform \in Platforms(input)
    /\ cpus \in 0..MaxCpus
    /\ concurrencyArgument \in {<<>>} \cup {<<n>> : n \in 1..MaxConcurrency}
    /\ flags \in {[DefaultFlags EXCEPT
                      !.concurrency = concurrencyFlag(concurrencyArgument, cpus),
                      !.dryRun = d] : d \in BOOLEAN}
    /\ fs \in FileSystems(flags.cwd)
    /\ Started

(***************************************************************************)
(* The steps of the script.                                                *)
(***************************************************************************)
\* cli.js:86-95
Template ==
    /\ pc = "template"
    /\ flags' = flagsAfterTemplate(flags)
    /\ copyFiles' = <<>>
    /\ pc' = "classify"
    /\ UNCHANGED <<platform, input, destination, fileToFile, fs, stdout, stderr,
                   exitCode, thrown, uncaught, call, entries, status, files,
                   input0, flags0, fs0, cpus, concurrencyArgument, run>>

\* cli.js:97-117
Classify ==
    /\ pc = "classify"
    /\ input' = afterPop(input)
    /\ fileToFile' = isFileToFileCopy(afterPop(input), popped(input))
    /\ IF isFileToFileCopy(afterPop(input), popped(input))
       THEN /\ flags' = flagsAfterShortcut(flags, popped(input))
            /\ destination' = destinationAfterShortcut(popped(input))
       ELSE /\ flags' = flags
            /\ destination' = popped(input)
    /\ pc' = "call"
    /\ UNCHANGED <<platform, fs, copyFiles, stdout, stderr, exitCode, thrown,
                   uncaught, call, entries, status, files, input0, flags0, fs0, cpus, concurrencyArgument, run>>

\* A call whose arguments were put together before the shortcut's rewrite.
CallBeforeRewrite ==
    /\ pc = "call"
    /\ call' = [source |-> cpySource(input), destination |-> popped(input0),
                options |-> cpyOptions(flagsAfterTemplate(flags0))]
    /\ pc' = "expand"
    /\ UNCHANGED <<platform, input, flags, destination, fileToFile, fs, copyFiles,
                   stdout, stderr, exitCode, thrown, uncaught, entries, status,
                   files, input0, flags0, fs0, cpus, concurrencyArgument, run>>

\* cli.js:119: the call of cpy
Call ==
    /\ pc = "call"
    /\ call' = [source |-> cpySource(input), destination |-> destination,
                options |-> cpyOptions(flags)]
    /\ pc' = "expand"
    /\ UNCHANGED <<platform, input, flags, destination, fileToFile, fs, copyFiles,
                   stdout, stderr, exitCode, thrown, uncaught, entries, status,
                   files, input0, flags0, fs0, cpus, concurrencyArgument, run>>

\* The engine validates the call and resolves the copy set (4.1, 4.2).
Resolve ==
    /\ pc = "expand"
    /\ IF CallError(fs, call, fileToFile) # NoError
       THEN /\ thrown' = CallError(fs, call, fileToFile)
            /\ pc' = "rejected"
            /\ UNCHANGED <<entries, status>>
       ELSE /\ entries' = Expand(fs, call)
            /\ status' = [i \in DOMAIN Expand(fs, call) |-> "queued"]
            /\ pc' = "copy"
            /\ UNCHANGED thrown
    /\ UNCHANGED <<platform, input, flags, destination, fileToFile, fs, copyFiles,
                   stdout, stderr, exitCode, uncaught, call, files,
                   input0, flags0, fs0, cpus, concurrencyArgument, run>>

InFlight == {i \in DOMAIN status : status[i] = "running"}

\* 4.6, 5: the scheduler starts the next task while a slot is free and no
\* task has failed.
TaskStart(i) ==
    /\ pc = "copy"
    /\ status[i] = "queued"
    /\ \A j \in 1..(i - 1) : status[j] # "queued"
    /\ thrown = NoError
    /\ Cardinality(InFlight) < call.options.concurrency
    /\ status' = [status EXCEPT ![i] = "running"]
    /\ UNCHANGED <<platform, input, flags, destination, fileToFile, pc, fs,
                   copyFiles, stdout, stderr, exitCode, thrown, uncaught, call,
                   entries, files, input0, flags0, fs0, cpus, concurrencyArgument, run>>

\* 4.6: a task in flight completes: skipped, reported (dry run), copied, or
\* failed.  A completed or reported copy invokes onProgress (cli.js:128).
TaskFinish(i) ==
    /\ pc = "copy"
    /\ status[i] = "running"
    /\ LET outcome == TaskOutcome(call.options, fs, entries[i])
       IN  /\ status' = [status EXCEPT ![i] =
                  IF outcome \in {"skipped", "reported", "copied"} THEN outcome
                  ELSE "failed"]
           /\ fs' = IF outcome = "copied" THEN CopyFile(fs, entries[i]) ELSE fs
           /\ copyFiles' =
                  IF outcome \in {"reported", "copied"}
                  THEN onProgress(flags, copyFiles, entries[i].sourcePath,
                                  entries[i].destinationPath)
                  ELSE copyFiles
           /\ thrown' =
                  IF outcome \in {"AlreadyExists", "CopyIO"} /\ thrown = NoError
                  THEN CpyError(outcome, entries[i].destinationPath)
                  ELSE thrown
    /\ UNCHANGED <<platform, input, flags, destination, fileToFile, pc, stdout,
                   stderr, exitCode, uncaught, call, entries, files,
                   input0, flags0, fs0, cpus, concurrencyArgument, run>>

\* The tasks that count as copies in the engine's result.
Completed == {i \in DOMAIN status : status[i] \in {"reported", "copied"}}

\* 3, 5: the engine's result: the completed copies in match order.
RECURSIVE ResultFrom(_)
ResultFrom(i) ==
    IF i > Len(entries) THEN <<>>
    ELSE (IF i \in Completed THEN <<entries[i].destinationPath>> ELSE <<>>)
         \o ResultFrom(i + 1)

\* The promise of the call settles: with the result, or with the first error
\* once nothing is in flight.
Settle ==
    /\ pc = "copy"
    /\ InFlight = {}
    /\ IF thrown = NoError
       THEN /\ \A i \in DOMAIN status : status[i] # "queued"
            /\ files' = ResultFrom(1)
            /\ pc' = "returned"
       ELSE /\ files' = files
            /\ pc' = "rejected"
    /\ UNCHANGED <<platform, input, flags, destination, fileToFile, fs, copyFiles,
                   stdout, stderr, exitCode, thrown, uncaught, call, entries,
                   status, input0, flags0, fs0, cpus, concurrencyArgument, run>>

\* The line console.log prints for one recorded copy (cli.js:142).
ListingLine(c) ==
    [source |-> PathRelative(ProcessCwd, c.sourcePath),
     destination |-> PathRelative(ProcessCwd, c.destinationPath)]

Listing(list) == [i \in DOMAIN list |-> ListingLine(list[i])]

NoFilesMatched == <<"No files matched the given patterns">>

\* The report without the check of an empty result.
ReportWithoutEmptyCheck ==
    /\ pc = "returned"
    /\ stdout' = IF flags.dryRun THEN stdout \o Listing(copyFiles) ELSE stdout
    /\ exitCode' = 0
    /\ stderr' = stderr
    /\ pc' = "exit"
    /\ UNCHANGED <<platform, input, flags, destination, fileToFile, fs, copyFiles,
                   thrown, uncaught, call, entries, status, files,
                   input0, flags0, fs0, cpus, concurrencyArgument, run>>

\* cli.js:135-144
Report ==
    /\ pc = "returned"
    /\ IF Len(files) = 0
       THEN /\ stderr' = Append(stderr, NoFilesMatched)
            /\ exitCode' = 1
            /\ stdout' = stdout
       ELSE /\ stdout' = IF flags.dryRun THEN stdout \o Listing(copyFiles) ELSE stdout
            /\ exitCode' = 0
            /\ stderr' = stderr
    /\ pc' = "exit"
    /\ UNCHANGED <<platform, input, flags, destination, fileToFile, fs, copyFiles,
                   thrown, uncaught, call, entries, status, files,
                   input0, flags0, fs0, cpus, concurrencyArgument, run>>

\* A catch that prints the message and lets the script end normally.
CatchWithoutExit ==
    /\ pc = "rejected"
    /\ stderr' = Append(stderr, MessageOf(thrown))
    /\ uncaught' = FALSE
    /\ exitCode' = 0
    /\ pc' = "exit"
    /\ UNCHANGED <<platform, input, flags, destination, fileToFile, fs, copyFiles,
                   stdout, thrown, call, entries, status, files,
                   input0, flags0, fs0, cpus, concurrencyArgument, run>>

\* A catch that renders every error like a copy error.
CatchEveryError ==
    /\ pc = "rejected"
    /\ stderr' = Append(stderr, <<"Cannot copy", thrown.path>>)
    /\ uncaught' = FALSE
    /\ exitCode' = 1
    /\ pc' = "exit"
    /\ UNCHANGED <<platform, input, flags, destination, fileToFile, fs, copyFiles,
                   stdout, thrown, call, entries, status, files,
                   input0, flags0, fs0, cpus, concurrencyArgument, run>>

\* cli.js:145-151
Catch ==
    /\ pc = "rejected"
    /\ IF thrown.name = "CpyError"
       THEN /\ stderr' = Append(stderr, MessageOf(thrown))
            /\ uncaught' = FALSE
       ELSE /\ stderr' = stderr
            /\ uncaught' = TRUE
    /\ exitCode' = 1
    /\ pc' = "exit"
    /\ UNCHANGED <<platform, input, flags, destination, fileToFile, fs, copyFiles,
                   stdout, thrown, call, entries, status, files,
                   input0, flags0, fs0, cpus, concurrencyArgument, run>>

Next ==
    \/ Template
    \/ Classify
    \/ Call
    \/ Resolve
    \/ \E i \in DOMAIN status : TaskStart(i)
    \/ \E i \in DOMAIN status : TaskFinish(i)
    \/ Settle
    \/ Report
    \/ Catch

Spec == Init /\ [][Next]_vars

(***************************************************************************)
(* Unexpected errors.  7: an error that is not one of the engine's typed   *)
(* kinds (a programming error) may leave the call; it is not a CpyError.   *)
(***************************************************************************)
InternalError == [name |-> "TypeError", kind |-> "Internal", path |-> <<>>]

Fault ==
    /\ pc = "expand"
    /\ thrown' = InternalError
    /\ pc' = "rejected"
    /\ UNCHANGED <<platform, input, flags, destination, fileToFile, fs, copyFiles,
                   stdout, stderr, exitCode, uncaught, call, entries, status, files,
                   input0, flags0, fs0, cpus, concurrencyArgument, run>>

\* The unexpected error arises while copies are under way: like a copy
\* error it is the call's first error, and the call rejects with it once
\* nothing is in flight.
FaultWhileCopying ==
    /\ pc = "copy"
    /\ thrown = NoError
    /\ thrown' = InternalError
    /\ UNCHANGED <<platform, input, flags, destination, fileToFile, pc, fs, copyFiles,
                   stdout, stderr, exitCode, uncaught, call, entries, status, files,
                   input0, flags0, fs0, cpus, concurrencyArgument, run>>

NextOrFault == Next \/ Fault \/ FaultWhileCopying

FaultSpec == Init /\ [][NextOrFault]_vars

(***************************************************************************)
(* The same command run again.  8 (update idempotence): a second           *)
(* invocation with the same command line starts on the file system the     *)
(* first one left, the sources untouched.                                  *)
(***************************************************************************)
Again ==
    /\ pc = "exit"
    /\ exitCode = 0
    /\ run < MaxRuns
    /\ run' = run + 1
    /\ input' = input0
    /\ flags' = flags0
    /\ fs0' = fs
    /\ destination' = Undefined
    /\ fileToFile' = FALSE
    /\ pc' = "template"
    /\ copyFiles' = <<>>
    /\ stdout' = <<>>
    /\ stderr' = <<>>
    /\ exitCode' = -1
    /\ thrown' = NoError
    /\ uncaught' = FALSE
    /\ call' = [source |-> <<>>, destination |-> Undefined, options |-> cpyOptions(flags0)]
    /\ entries' = <<>>
    /\ status' = <<>>
    /\ files' = <<>>
    /\ UNCHANGED <<platform, fs, input0, flags0, cpus, concurrencyArgument>>

UpdateInit == Init /\ flags.update

NextOrAgain == Next \/ Again

TwiceSpec == UpdateInit /\ [][NextOrAgain]_vars

HostSpec == HostInit /\ [][Next]_vars

(***************************************************************************)
(* The command line as given, for the statements below.                    *)
(***************************************************************************)
\* The positions of the positional arguments before the last one that are
\* sources (carry no exclusion marker), and those that are exclusions.
SourcePositions == {i \in 1..(Len(input0) - 1) : Head(input0[i]) # "!"}

ExclusionPositions == {i \in 1..(Len(input0) - 1) : Head(input0[i]) = "!"}

TheSource == input0[CHOOSE i \in SourcePositions : TRUE]

TheDestination == input0[Len(input0)]

Classified == pc \notin {"template", "classify"}

Exited == pc = "exit"

\* The paths the single file-to-file copy reads and writes.
ShortcutSource == PathResolve(flags0.cwd, TheSource)

ShortcutTarget == PathResolve(flags0.cwd, TheDestination)

(***************************************************************************)
(* C1.  An invocation is classified as a single file-to-file copy if and   *)
(* only if all six conditions hold: exactly one source argument (an        *)
(* argument before the destination without the exclusion marker), a        *)
(* destination argument, the source is not a dynamic glob pattern (on      *)
(* win32 a backslash is a separator, elsewhere an escape), the source does *)
(* not resolve against cwd to an existing directory, the destination does  *)
(* not end with a path separator, and the destination does not resolve     *)
(* against cwd to an existing directory.                                   *)
(***************************************************************************)
C1_SixConditions ==
    /\ Cardinality(SourcePositions) = 1
    /\ Len(input0) >= 1
    /\ \A i \in DOMAIN TheSource :
          /\ TheSource[i] \notin {"*", "**", "@(a|b)"}
          /\ TheSource[i] = "\\" => platform = "win32"
    /\ ~IsDir(fs0, PathResolve(flags0.cwd, TheSource))
    /\ TheDestination[Len(TheDestination)] \notin {"/", "\\"}
    /\ ~IsDir(fs0, PathResolve(flags0.cwd, TheDestination))

C3_Preexisting(i) == IsFile(fs0, entries[i].destinationPath)

C3_OverwriteGate ==
    ~flags0.dryRun =>
        \A i \in DOMAIN entries :
            /\ (~flags0.overwrite /\ C3_Preexisting(i)) =>
                  /\ fs[entries[i].destinationPath] = fs0[entries[i].destinationPath]
                  /\ status[i] \in {"queued", "running", "failed"}
                  /\ status[i] = "failed" =>
                        /\ thrown.name = "CpyError"
                        /\ (\A j \in DOMAIN entries : status[j] = "failed" => C3_Preexisting(j))
                              => thrown.kind = "AlreadyExists"
                        /\ Exited => (exitCode = 1 /\ stderr = <<MessageOf(thrown)>>)
            /\ (flags0.overwrite /\ C3_Preexisting(i) /\ status[i] = "copied") =>
                  \E j \in DOMAIN entries :
                      /\ entries[j].destinationPath = entries[i].destinationPath
                      /\ fs[entries[i].destinationPath].content
                            = fs0[entries[j].sourcePath].content

\* A run with --no-overwrite that ended on an existing destination.
C3_Witness ==
    /\ Exited
    /\ ~flags0.overwrite
    /\ ~flags0.dryRun
    /\ \E i \in DOMAIN entries : C3_Preexisting(i) /\ status[i] = "failed"
    /\ thrown.kind = "AlreadyExists"

(***************************************************************************)
(* C4.  No-match invariant: an invocation with a source and a destination  *)
(* that is not a single-file shortcut and whose positive patterns match no *)
(* existing file under cwd fails: "No files matched" is written to the     *)
(* error stream, the exit code is non-zero, and no file is written.        *)
(***************************************************************************)
C4_PositiveMatch(i) ==
    \E f \in Range(UniverseFiles) :
        IsFile(fs0, f) /\ Selects(fs0, input0[i], flags0.cwd, flags0.dot, f)

C4_NothingMatches ==
    /\ SourcePositions # {}
    /\ \A i \in SourcePositions : ~C4_PositiveMatch(i)

\* The statement can only fail once something was written or the run has
\* ended: the patterns are matched again in those states only.
C4_NoMatchFails ==
    (Classified /\ ~fileToFile /\ (fs # fs0 \/ Exited) /\ C4_NothingMatches) =>
        /\ fs = fs0
        /\ Exited => (exitCode = 1 /\ stderr = <<NoFilesMatched>> /\ stdout = <<>>)

\* A glob under a folder that does not exist ended the run.
C4_Witness ==
    /\ Exited
    /\ ~fileToFile
    /\ C4_NothingMatches
    /\ Head(TheSource) = "nn"

(***************************************************************************)
(* C5.  Missing arguments: with no positional argument, with exactly one,  *)
(* or with only negative patterns before the destination, the invocation   *)
(* exits non-zero with the error that both source and destination are      *)
(* required, and no copy work is attempted.                                *)
(***************************************************************************)
C5_ArgumentsMissing == Len(input0) <= 1 \/ SourcePositions = {}

C5_MissingArguments ==
    C5_ArgumentsMissing =>
        /\ fs = fs0
        /\ entries = <<>>
        /\ status = <<>>
        /\ Exited =>
              /\ exitCode = 1
              /\ stderr = << <<"source and destination required">> >>
              /\ stdout = <<>>

\* A run given only a negative pattern and a destination has exited.
C5_Witness ==
    /\ Exited
    /\ Len(input0) = 2
    /\ SourcePositions = {}
    /\ exitCode = 1

(***************************************************************************)
(* C6.  Update policy: with --update (and overwrite enabled) a file is     *)
(* copied if and only if its destination does not exist, or the source's   *)
(* modification time is strictly newer, or the times are equal and the     *)
(* sizes differ; otherwise it is silently skipped, the destination keeps   *)
(* its content, and there is no error.  (Stated for a task that alone      *)
(* resolves to its destination, the destination being a file or absent.)   *)
(***************************************************************************)
C6_Proceed(i) ==
    \/ ~Exists(fs0, entries[i].destinationPath)
    \/ fs0[entries[i].sourcePath].mtime > fs0[entries[i].destinationPath].mtime
    \/ /\ fs0[entries[i].sourcePath].mtime = fs0[entries[i].destinationPath].mtime
       /\ Len(fs0[entries[i].sourcePath].content)
             # Len(fs0[entries[i].destinationPath].content)

C6_Plain(i) ==
    /\ \A j \in DOMAIN entries :
          entries[j].destinationPath = entries[i].destinationPath => j = i
    /\ ~IsDir(fs0, entries[i].destinationPath)
    /\ ~Blocked(fs0, entries[i].destinationPath)

C6_UpdatePolicy ==
    (flags0.update /\ flags0.overwrite /\ ~flags0.dryRun) =>
        \A i \in DOMAIN entries :
            (C6_Plain(i) /\ status[i] \notin {"queued", "running"}) =>
                IF C6_Proceed(i)
                THEN status[i] = "copied"
                ELSE /\ status[i] = "skipped"
                     /\ fs[entries[i].destinationPath] = fs0[entries[i].destinationPath]
                     /\ thrown = NoError

(***************************************************************************)
(* C7.  Negation: negative patterns never add files; the copy set is the   *)
(* set of files matched by the positive patterns minus the files matched   *)
(* by any negative pattern, and it is the same for every ordering of the   *)
(* patterns in the argument list.                                          *)
(***************************************************************************)
Resolved ==
    \/ pc \in {"copy", "returned"}
    \/ pc \in {"rejected", "exit"} /\ thrown.kind \notin {"MissingArguments", "SourceNotFound"}

C7_CopySet == {entries[i].sourcePath : i \in DOMAIN entries}

C7_Matched(positions, f) ==
    \E i \in positions :
        Selects(fs0, IF Head(input0[i]) = "!" THEN Tail(input0[i]) ELSE input0[i],
                flags0.cwd, flags0.dot, f)

C7_Reorderings(s) == {[i \in DOMAIN s |-> s[g[i]]] : g \in Permutations(DOMAIN s)}

C7_SourcesOf(tasks) == {tasks[i].sourcePath : i \in DOMAIN tasks}

\* The copy set is resolved once, when the call starts, and stays what it is
\* to the end of the run: it is compared when the tasks are created and when
\* the run has ended.
C7_JustResolved == pc = "copy" /\ \A i \in DOMAIN status : status[i] = "queued"

C7_Negation ==
    /\ (C7_JustResolved \/ (Exited /\ Resolved)) =>
          C7_CopySet =
              {f \in Range(UniverseFiles) :
                  /\ IsFile(fs0, f)
                  /\ C7_Matched(SourcePositions, f)
                  /\ ~C7_Matched(ExclusionPositions, f)}
    /\ C7_JustResolved =>
          \A s \in C7_Reorderings(Front(input0)) :
              C7_SourcesOf(Expand(fs0, [call EXCEPT !.source = s])) = C7_CopySet

\* A negative pattern listed before the positive one removed a file from the
\* copy set.
C7_Witness ==
    /\ Resolved
    /\ 1 \in ExclusionPositions
    /\ \E f \in Range(UniverseFiles) :
          /\ IsFile(fs0, f)
          /\ C7_Matched(SourcePositions, f)
          /\ C7_Matched(ExclusionPositions, f)
          /\ f \notin C7_CopySet
    /\ C7_CopySet # {}

(***************************************************************************)
(* C8.  Rename rule.  As claimed: if --rename contains {{basename}} the    *)
(* destination filename is the rename string with every occurrence of the  *)
(* placeholder replaced by the source's name without extension, followed   *)
(* by "." and the source's extension when it has one; otherwise --rename   *)
(* is the literal filename; and only the filename changes, not the         *)
(* directory part of the destination path.                                 *)
(***************************************************************************)
RECURSIVE C8_Substituted(_, _)
C8_Substituted(template, stem) ==
    IF template = <<>> THEN <<>>
    ELSE (IF Head(template) = "{{basename}}" THEN stem ELSE <<Head(template)>>)
         \o C8_Substituted(Tail(template), stem)

C8_ExpectedName(name) ==
    IF \E k \in DOMAIN flags0.rename.value : flags0.rename.value[k] = "{{basename}}"
    THEN C8_Substituted(flags0.rename.value, NameWithoutExtension(name))
            \o (IF Extension(name) = <<>> THEN <<>> ELSE <<".">> \o Extension(name))
    ELSE flags0.rename.value

C8_DirectoryKept(i) ==
    \E k \in SourcePositions :
        Front(entries[i].destinationPath) =
            Front(DestinationPath([call.options EXCEPT !.rename = NoRename],
                                  PathResolve(call.options.cwd, call.destination),
                                  input0[k], entries[i].sourcePath))

C8_Written(i) ==
    (Exited /\ exitCode = 0 /\ ~flags0.dryRun) => IsFile(fs, entries[i].destinationPath)

C8_RenameRule ==
    (Resolved /\ flags0.rename.kind = "string") =>
        \A i \in DOMAIN entries :
            /\ Last(entries[i].destinationPath) = C8_ExpectedName(Last(entries[i].sourcePath))
            /\ C8_DirectoryKept(i)
            /\ C8_Written(i)

\* C8 as amended: the rule holds unless the invocation is a single
\* file-to-file copy, where the filename is the destination's basename
\* whatever --rename says.
C8_RenameRuleOutsideShortcut ==
    (Resolved /\ flags0.rename.kind = "string") =>
        \A i \in DOMAIN entries :
            /\ Last(entries[i].destinationPath) =
                  IF fileToFile THEN Last(ShortcutTarget)
                  ELSE C8_ExpectedName(Last(entries[i].sourcePath))
            /\ C8_DirectoryKept(i)
            /\ C8_Written(i)

\* A copy into a directory under a template with two placeholders, and one of
\* a source without extension, were written.
C8_Witness ==
    /\ Exited
    /\ exitCode = 0
    /\ ~fileToFile
    /\ flags0.rename.kind = "string"
    /\ \/ /\ flags0.rename.value = <<"{{basename}}", "-copy-", "{{basename}}">>
          /\ IsFile(fs, ProcessCwd \o << <<"dest">>, <<"a", "-copy-", "a", ".", "txt">> >>)
       \/ /\ flags0.rename.value = <<"hi-", "{{basename}}">>
          /\ IsFile(fs, ProcessCwd \o << <<"dest">>, <<"hi-", ".", "env">> >>)

(***************************************************************************)
(* C9.  Dry-run writes nothing: in every state of a --dry-run invocation   *)
(* the file system is as it was at the start (no destination file or       *)
(* directory is created or modified), and a successful run reports the     *)
(* source and destination of each would-be copy.                           *)
(***************************************************************************)
C9_Below(path) == SubSeq(path, Len(ProcessCwd) + 1, Len(path))

C9_LineOf(i) ==
    [source |-> C9_Below(entries[i].sourcePath),
     destination |-> C9_Below(entries[i].destinationPath)]

C9_DryRunWritesNothing ==
    flags0.dryRun =>
        /\ fs = fs0
        /\ (Exited /\ exitCode = 0) =>
              /\ Len(stdout) = Cardinality(Completed)
              /\ \A i \in Completed : \E k \in DOMAIN stdout : stdout[k] = C9_LineOf(i)

\* A dry run listed two would-be copies whose destinations do not exist.
C9_Witness ==
    /\ Exited
    /\ flags0.dryRun
    /\ Len(stdout) = 2
    /\ \A i \in DOMAIN entries : ~Exists(fs, entries[i].destinationPath)

(***************************************************************************)
(* C10.  Dry-run listing order: the dry-run output holds exactly one line  *)
(* per would-be copy and the lines are in the match order of the sources,  *)
(* for every concurrency limit and every order in which the progress       *)
(* events are delivered.                                                   *)
(***************************************************************************)
C10_Position(line) == CHOOSE i \in DOMAIN entries : C9_LineOf(i) = line

C10_ListingInMatchOrder ==
    (Exited /\ flags0.dryRun /\ exitCode = 0) =>
        /\ Len(stdout) = Cardinality(Completed)
        /\ \A k1, k2 \in DOMAIN stdout :
              k1 < k2 => C10_Position(stdout[k1]) < C10_Position(stdout[k2])

(***************************************************************************)
(* C11.  A dry run with --update in which the update policy finds nothing  *)
(* to copy (sources matched, every destination up to date) succeeds: it    *)
(* prints nothing at all and exits with code 0, not with the "no files     *)
(* matched" failure.                                                       *)
(***************************************************************************)
C11_NothingToCopy ==
    /\ entries # <<>>
    /\ \A i \in DOMAIN entries : C6_Plain(i) /\ ~C6_Proceed(i)

C11_QuietWhenUpToDate ==
    (Exited /\ flags0.dryRun /\ flags0.update /\ flags0.overwrite /\ C11_NothingToCopy) =>
        /\ stdout = <<>>
        /\ stderr = <<>>
        /\ exitCode = 0

(***************************************************************************)
(* C12.  Bounded concurrency: in every reachable state the number of copy  *)
(* operations in flight is at most the configured limit (--concurrency, or *)
(* the default when absent), and when no error occurs every task of the    *)
(* resolved copy set is started once and finished once: a task never       *)
(* returns to the queue, a finished task stays finished, and the call      *)
(* returns only when all are finished.                                     *)
(***************************************************************************)
C12_Finished == {"skipped", "reported", "copied", "failed"}

C12_WithinLimit == Cardinality(InFlight) <= flags0.concurrency

C12_AllFinished ==
    (thrown = NoError /\ pc \in {"returned", "exit"}) =>
        \A i \in DOMAIN status : status[i] \in C12_Finished \ {"failed"}

C12_OnceEach ==
    \A i \in DOMAIN status \cap DOMAIN status' :
        /\ status[i] = "queued" => status'[i] \in {"queued", "running"}
        /\ status[i] = "running" => status'[i] \in {"running"} \cup C12_Finished
        /\ status[i] \in C12_Finished => status'[i] = status[i]

C12_BoundedConcurrency ==
    /\ [](C12_WithinLimit /\ C12_AllFinished)
    /\ [][C12_OnceEach]_vars

\* The pool given by --concurrency is full while a task waits in the queue.
C12_Witness ==
    /\ concurrencyArgument # <<>>
    /\ Cardinality(InFlight) = flags0.concurrency
    /\ \E i \in DOMAIN status : status[i] = "queued"
    /\ \E i \in DOMAIN status : status[i] = "copied"

(***************************************************************************)
(* C13.  Fail-fast: after the first unrecoverable per-file error no task   *)
(* that has not started is ever started; the tasks in flight run to        *)
(* completion before the call fails; a copy that succeeded is not rolled   *)
(* back; and the invocation reports the failure, with the first error and  *)
(* a non-zero exit code, and prints no summary of the copies that          *)
(* succeeded.                                                              *)
(***************************************************************************)
C13_NoStartAfterError ==
    thrown # NoError =>
        \A i \in DOMAIN status \cap DOMAIN status' :
            status[i] = "queued" => status'[i] = "queued"

C13_FirstErrorKept == thrown # NoError => thrown' = thrown

C13_NotRolledBack ==
    \A i \in DOMAIN status \cap DOMAIN status' :
        status[i] = "copied" =>
            /\ status'[i] = "copied"
            /\ IsFile(fs', entries[i].destinationPath)
            /\ \/ fs'[entries[i].destinationPath] = fs[entries[i].destinationPath]
               \/ \E j \in DOMAIN status :
                     /\ entries[j].destinationPath = entries[i].destinationPath
                     /\ status[j] = "running"
                     /\ status'[j] = "copied"

C13_InFlightCompleted == pc \in {"rejected", "exit"} => InFlight = {}

C13_FailureReported ==
    (Exited /\ thrown # NoError) =>
        /\ exitCode # 0
        /\ stderr = <<MessageOf(thrown)>>
        /\ stdout = <<>>
        /\ files = <<>>
        /\ thrown.kind \in {"AlreadyExists", "CopyIO"} =>
              \E i \in DOMAIN status :
                  status[i] = "failed" /\ thrown.path = entries[i].destinationPath

C13_FailFast ==
    /\ [](C13_InFlightCompleted /\ C13_FailureReported)
    /\ [][C13_NoStartAfterError /\ C13_FirstErrorKept /\ C13_NotRolledBack]_vars

\* A run has ended on the failure of its first task: the second was in flight
\* and was copied, the third never started.
C13_Witness ==
    /\ Exited
    /\ Len(status) = 3
    /\ status[1] = "failed"
    /\ status[2] = "copied"
    /\ status[3] = "queued"
    /\ IsFile(fs, entries[2].destinationPath)

(***************************************************************************)
(* C14.  Error rendering: an error named CpyError is rendered as its       *)
(* message on the error stream and the process exits with a non-zero code; *)
(* any other error is neither formatted nor swallowed: it leaves the       *)
(* program as it was thrown, and the program writes nothing for it.        *)
(***************************************************************************)
C14_Rendered ==
    (Exited /\ thrown # NoError) =>
        IF thrown.name = "CpyError"
        THEN /\ stderr = <<MessageOf(thrown)>>
             /\ exitCode # 0
             /\ ~uncaught
        ELSE /\ uncaught
             /\ stderr = <<>>
             /\ stdout = <<>>
             /\ exitCode # 0

C14_Unmodified == pc = "rejected" => thrown' = thrown

C14_ErrorRendering == [](C14_Rendered) /\ [][C14_Unmodified]_vars

\* An error that is no CpyError has left the program.
C14_Witness ==
    /\ Exited
    /\ thrown.name # "CpyError"
    /\ thrown # NoError
    /\ uncaught

(***************************************************************************)
(* C15.  With both --update and --no-overwrite, no-overwrite takes         *)
(* precedence: the update policy is not consulted, and a destination that  *)
(* exists blocks the copy with the already-exists failure whatever the     *)
(* modification times and sizes of source and destination.                 *)
(***************************************************************************)
C15_Exists(i) == IsFile(fs0, entries[i].destinationPath)

C15_NoOverwriteFirst ==
    (flags0.update /\ ~flags0.overwrite /\ ~flags0.dryRun) =>
        \A i \in DOMAIN entries :
            C15_Exists(i) =>
                /\ status[i] \notin {"skipped", "copied", "reported"}
                /\ fs[entries[i].destinationPath] = fs0[entries[i].destinationPath]
                /\ status[i] = "failed" =>
                      /\ thrown.name = "CpyError"
                      /\ (\A j \in DOMAIN entries : status[j] = "failed" => C15_Exists(j))
                            => thrown.kind = "AlreadyExists"
                      /\ Exited => (exitCode # 0 /\ stderr = <<MessageOf(thrown)>>)

\* The run failed on a destination that is older than its source.
C15_Witness ==
    /\ Exited
    /\ flags0.update
    /\ ~flags0.overwrite
    /\ thrown.kind = "AlreadyExists"
    /\ \E i \in DOMAIN entries :
          /\ C15_Exists(i)
          /\ status[i] = "failed"
          /\ fs0[entries[i].sourcePath].mtime > fs0[entries[i].destinationPath].mtime

(***************************************************************************)
(* C16.  Update idempotence: when the same --update invocation is run      *)
(* twice in succession and no source changes in between, the second run    *)
(* performs zero copies, whatever the destination tree was at the start.   *)
(***************************************************************************)
C16_SecondRunCopiesNothing ==
    (run = 2 /\ flags0.update) =>
        /\ \A i \in DOMAIN status : status[i] # "copied"
        /\ fs = fs0

(***************************************************************************)
(* C17.  Destination collision under update: when two or more matched      *)
(* sources resolve to the same destination path and --update is set, only  *)
(* the source with the newest modification time is selected for that       *)
(* destination; an older source is neither copied nor listed in the        *)
(* dry-run output, in whatever order the sources were given.               *)
(***************************************************************************)
C17_Older(i) ==
    \E j \in DOMAIN entries :
        /\ j # i
        /\ entries[j].destinationPath = entries[i].destinationPath
        /\ fs0[entries[j].sourcePath].mtime > fs0[entries[i].sourcePath].mtime

C17_NewestOnly ==
    (flags0.update /\ flags0.overwrite) =>
        \A i \in DOMAIN entries :
            C17_Older(i) =>
                /\ i \in DOMAIN status => status[i] \notin {"copied", "reported"}
                /\ \A k \in DOMAIN stdout : stdout[k].source # C9_LineOf(i).source

(***************************************************************************)
(* C18.  Default concurrency: when --concurrency is not given the pool     *)
(* size is twice the detected number of processing units, and it is a      *)
(* positive integer (at least 1) even when the host reports zero           *)
(* processing units; a --concurrency value replaces the default.           *)
(***************************************************************************)
C18_Called == pc \in {"expand", "copy", "returned", "rejected", "exit"}

C18_DefaultConcurrency ==
    C18_Called =>
        /\ call.options.concurrency \in Nat
        /\ call.options.concurrency >= 1
        /\ (concurrencyArgument = <<>> /\ cpus > 0) => call.options.concurrency = 2 * cpus
        /\ concurrencyArgument # <<>> => call.options.concurrency = concurrencyArgument[1]
        /\ Cardinality(InFlight) <= call.options.concurrency

\* On a host that reports no processing unit, without --concurrency, two
\* copies are in flight.
C18_Witness ==
    /\ cpus = 0
    /\ concurrencyArgument = <<>>
    /\ call.options.concurrency = 2
    /\ Cardinality(InFlight) = 2

(***************************************************************************)
(* C19.  Ordering: the single-file-shortcut decision and its rewrites      *)
(* (rename rule, flatten, destination replaced by its parent) are          *)
(* completed before pattern expansion starts and are computed from the     *)
(* file system as it is before any copy; once expansion or copying has     *)
(* begun, no option and not the destination is changed.                    *)
(***************************************************************************)
C19_Expanding == pc \in {"expand", "copy", "returned", "rejected", "exit"}

C19_DecidedFirst ==
    /\ ~C19_Expanding => (fs = fs0 /\ entries = <<>> /\ status = <<>>)
    /\ pc = "expand" => fs = fs0
    /\ C19_Expanding =>
          /\ fileToFile <=> C1_SixConditions
          /\ call.options = cpyOptions(flags)
          /\ call.destination = destination
          /\ IF fileToFile
             THEN /\ call.options.flat
                  /\ call.options.rename = FilenameClosure(Last(ShortcutTarget))
                  /\ PathResolve(call.options.cwd, call.destination) = Front(ShortcutTarget)
             ELSE /\ call.options.flat = flags0.flat
                  /\ call.options.rename.value = flags0.rename.value
                  /\ call.destination = IF input0 = <<>> THEN Undefined ELSE Last(input0)

C19_Frozen ==
    C19_Expanding =>
        /\ flags' = flags
        /\ destination' = destination
        /\ fileToFile' = fileToFile
        /\ call' = call

C19_Ordering == [](C19_DecidedFirst) /\ [][C19_Frozen]_vars

\* A file-to-file copy to a path that did not exist has written it: the
\* destination was read as a future file.
C19_Witness ==
    /\ Exited
    /\ exitCode = 0
    /\ fileToFile
    /\ ~Exists(fs0, ShortcutTarget)
    /\ IsFile(fs, ShortcutTarget)
    /\ Len(entries) = 1

(***************************************************************************)
(* C20.  In single-file-shortcut mode a --rename given by the user         *)
(* (literal or template) and --flat=false have no effect: the rename rule  *)
(* is the destination's basename and flatten is on, so the one file        *)
(* written is the destination path itself, with the source's content, and  *)
(* no file of the name --rename asks for is created.                       *)
(***************************************************************************)
C20_AskedFor(i) ==
    Front(ShortcutTarget) \o <<C8_ExpectedName(Last(entries[i].sourcePath))>>

C20_RenameHasNoEffect ==
    (fileToFile /\ C19_Expanding) =>
        /\ call.options.flat
        /\ call.options.rename = FilenameClosure(Last(ShortcutTarget))
        /\ \A i \in DOMAIN entries :
              /\ entries[i].sourcePath = ShortcutSource
              /\ entries[i].destinationPath = ShortcutTarget
              /\ (flags0.rename.kind = "string" /\ C20_AskedFor(i) # ShortcutTarget) =>
                    (Exists(fs, C20_AskedFor(i)) => fs[C20_AskedFor(i)] = fs0[C20_AskedFor(i)])
        /\ (Exited /\ exitCode = 0 /\ ~flags0.dryRun) =>
              /\ IsFile(fs, ShortcutTarget)
              /\ fs[ShortcutTarget].content = fs0[ShortcutSource].content

\* A file-to-file copy given a rename template wrote the destination path.
C20_Witness ==
    /\ Exited
    /\ exitCode = 0
    /\ fileToFile
    /\ flags0.rename.kind = "string"
    /\ \E k \in DOMAIN flags0.rename.value : flags0.rename.value[k] = "{{basename}}"
    /\ ~flags0.dryRun
    /\ IsFile(fs, ShortcutTarget)
    /\ fs[ShortcutTarget].content = fs0[ShortcutSource].content

(***************************************************************************)
(* C21.  Argument partition: the destination is always the last positional *)
(* argument (even when it starts with '!'), and the pattern list handed to *)
(* expansion is exactly the remaining positional arguments in their        *)
(* original order, negative patterns included; the single-file-shortcut    *)
(* decision does not add, drop or reorder any pattern, it only changes     *)
(* rename, flatten and the destination.                                    *)
(***************************************************************************)
\* The positional arguments before the last one, as given.
C21_Remaining == IF input0 = <<>> THEN <<>> ELSE Front(input0)

\* The last positional argument, as given.
C21_LastArgument == IF input0 = <<>> THEN Undefined ELSE Last(input0)

\* The options the shortcut does not touch.
C21_OtherOptions == DOMAIN flags0 \ {"rename", "flat"}

C21_ArgumentPartition ==
    /\ Classified =>
          /\ input = C21_Remaining
          /\ destination = IF fileToFile THEN PathDirname(C21_LastArgument)
                           ELSE C21_LastArgument
          /\ fileToFile => flags.rename = FilenameClosure(PathBasename(C21_LastArgument))
          /\ \A k \in C21_OtherOptions : flags[k] = flags0[k]
          /\ ~fileToFile => flags = flagsAfterTemplate(flags0)
    /\ C19_Expanding =>
          /\ call.source = C21_Remaining
          /\ Len(call.source) = Cardinality(SourcePositions) + Cardinality(ExclusionPositions)
          /\ \A i \in DOMAIN call.source : call.source[i] = input0[i]
          /\ \A k \in C21_OtherOptions \ {"update"} : call.options[k] = flags0[k]

\* A file-to-file copy given with an exclusion after the source: the call
\* received both patterns, in the order given.
C21_Witness ==
    /\ C19_Expanding
    /\ fileToFile
    /\ Len(input0) = 3
    /\ ExclusionPositions = {2}
    /\ call.source = <<input0[1], input0[2]>>
    /\ call.destination = PathDirname(input0[3])

(***************************************************************************)
(* C22.  Listing lines are printed to standard output only when --dry-run  *)
(* is set and the copy engine has returned successfully with a non-empty   *)
(* result: a non-dry-run invocation records and prints no per-file lines,  *)
(* and an invocation that ends with an error or with 'No files matched'    *)
(* prints no listing line, even if progress events were delivered before   *)
(* the failure.  Every invocation ends in exactly one of: success (exit    *)
(* 0), a single error message with non-zero exit, or a propagated          *)
(* unexpected error.                                                       *)
(***************************************************************************)
\* Progress events were delivered: a copy was completed or reported.
C22_ProgressDelivered == Completed # {}

C22_ListingOnlyAfterDryRunSuccess ==
    /\ stdout # <<>> =>
          /\ flags0.dryRun
          /\ Exited
          /\ thrown = NoError
          /\ files # <<>>
          /\ exitCode = 0
          /\ stdout = Listing(copyFiles)
    /\ ~flags0.dryRun => (copyFiles = <<>> /\ stdout = <<>>)
    /\ flags0.dryRun => Len(copyFiles) = Cardinality(Completed)
    /\ (Exited /\ (thrown # NoError \/ files = <<>>)) => stdout = <<>>

\* The three ways an invocation ends.
C22_Success == exitCode = 0 /\ stderr = <<>> /\ ~uncaught /\ thrown = NoError

C22_UserError == exitCode # 0 /\ Len(stderr) = 1 /\ ~uncaught

C22_Propagated == uncaught /\ stderr = <<>> /\ thrown = InternalError

\* A run that has not ended has a next step: a task to start, a task in
\* flight to finish, or the call to settle (every other position of the
\* script has its step unconditionally).
C22_CanProceed ==
    pc = "copy" =>
        \/ InFlight # {}
        \/ thrown # NoError
        \/ \A i \in DOMAIN status : status[i] # "queued"
        \/ Cardinality(InFlight) < call.options.concurrency

C22_OneEnding ==
    /\ Exited =>
          /\ C22_Success \/ C22_UserError \/ C22_Propagated
          /\ ~(C22_Success /\ C22_UserError)
          /\ ~(C22_Success /\ C22_Propagated)
          /\ ~(C22_UserError /\ C22_Propagated)
    /\ ~Exited => (exitCode = -1 /\ stderr = <<>> /\ ~uncaught /\ C22_CanProceed)

C22_ListingAndEnding == C22_ListingOnlyAfterDryRunSuccess /\ C22_OneEnding

\* A dry run recorded a would-be copy, then ended with an error: nothing was
\* listed.
C22_Witness ==
    /\ Exited
    /\ flags0.dryRun
    /\ C22_ProgressDelivered
    /\ copyFiles # <<>>
    /\ thrown # NoError
    /\ stdout = <<>>

====
